---- MODULE Spec2Model ----
(***************************************************************************)
(* State-machine model of cgpu's RemoteCommandRunner (one non-interactive  *)
(* command over a Colab terminal websocket).                                *)
(*                                                                         *)
(* Strings are sequences of one-character strings.  The escape character   *)
(* U+001B is written "ESC".  Numbers are Int; NaN / undefined are the      *)
(* distinguished values NaN and Undefined.                                  *)
(***************************************************************************)
EXTENDS Integers, Sequences, FiniteSets, TLC

VARIABLES
    command,            \* argument of run()
    verbose,            \* this.options.verbose
    pc,                 \* position of run(): see Init / actions
    outcome,            \* the promise run() returns: pending, resolved(n), rejected
    httpRequests,       \* create-terminal POST requests issued
    terminalName,       \* run()'s terminalName
    sockets,            \* WebSocket objects constructed
    readyState,         \* the socket: "NONE", "CONNECTING", "OPEN", "CLOSED"
    listeners,          \* events of the command stream that have a listener
    exitMarker,         \* EXIT_SENTINEL_PREFIX + randomUUID()
    sent,               \* frames passed to ws.send, in order
    stdoutBuffer,       \* streamCommand's stdoutBuffer
    capturedExitCode,   \* streamCommand's capturedExitCode
    out,                \* strings written to process.stdout, in order
    err,                \* strings written to process.stderr, in order
    warnings,           \* console.warn calls, in order
    logs,               \* console.log calls, in order
    received,           \* history: concatenation of all stdout frame payloads
    flushed,            \* history: the lines handed to flushLine, in order
    carried,            \* history: a stdout frame was appended to a non-empty buffer
    opened,             \* history: the socket's open event has fired
    otherFrames,        \* history: number of non-stdout messages handled
    closeEvents,        \* history: number of runs of the close listener
    errorEvents,        \* history: number of socket error events
    others,             \* history: the tags of the non-stdout messages handled
    errMidLine,         \* history: a stderr frame came while a partial line was buffered
    lineParts,          \* the parts of the line given to flushLine on its own
    cliCommand,         \* the CLI command given: "run" or "connect"
    cli,                \* position of the CLI command's action
    accessToken,        \* session returned by auth.getAccessToken
    runtime,            \* runtime returned by assignRuntime
    runners,            \* RemoteCommandRunner objects constructed
    terminalSessions,   \* TerminalSession objects constructed
    processExitCode,    \* process.exitCode
    exitStatus,         \* how the process ended: the argument of process.exit,
                        \* or the signal that ended it
    config              \* loadConfig: the files, the environment and its progress

vars == <<command, verbose, pc, outcome, httpRequests, terminalName, sockets,
          readyState, listeners, exitMarker, sent, stdoutBuffer,
          capturedExitCode, out, err, warnings, logs, received, flushed,
          carried, opened, otherFrames, closeEvents, errorEvents, others,
          errMidLine, lineParts, cliCommand, cli, accessToken, runtime, runners, terminalSessions,
          processExitCode, exitStatus, config>>

\* the state of the CLI around the runner
cliVars == <<cliCommand, cli, accessToken, runtime, runners, terminalSessions,
             processExitCode, exitStatus, config>>

\* the state of one RemoteCommandRunner.run
runnerVars == <<command, verbose, pc, outcome, httpRequests, terminalName,
                sockets, readyState, listeners, exitMarker, sent,
                stdoutBuffer, capturedExitCode, out, err, warnings, received,
                flushed, carried, opened, otherFrames, closeEvents,
                errorEvents, others, errMidLine, lineParts>>

----------------------------------------------------------------------------
(* Bounds of the model *)

\* non-stdout frames (stderr, disconnect, unknown, malformed) per run
MaxOtherFrames == 1

\* characters in one stdout frame
MaxFrameLen == 5

----------------------------------------------------------------------------
(* Values *)

\* JavaScript values: a number n is Num(n)
Undefined == <<"undefined">>
NaN == <<"NaN">>
Num(n) == <<"number", n>>

\* states of a promise
Pending == <<"pending">>
Resolved(v) == <<"resolved", v>>
Rejected(reason) == <<"rejected", reason>>
ESC == "ESC"

EXIT_SENTINEL_PREFIX ==
    <<"_", "_", "C", "O", "L", "A", "B", "_", "C", "L", "I", "_",
      "E", "X", "I", "T", "_", "_">>

PROMPT_PREFIX == <<"/", "#", " ">>

\* the character classes of ANSI_ESCAPE_REGEX  /\u001b\[[0-9;?]*[ -\/]*[@-~]/g
AnsiParamChars ==
    {"0", "1", "2", "3", "4", "5", "6", "7", "8", "9", ";", "?"}

AnsiIntermediateChars ==
    {" ", "!", "\"", "#", "$", "%", "&", "'", "(", ")", "*", "+", ",", "-",
     ".", "/"}

\* [@-~]; the backquote (0x60) cannot be written in a TLA+ string and occurs
\* in no modelled input
AnsiFinalChars ==
    {"@", "A", "B", "C", "D", "E", "F", "G", "H", "I", "J", "K", "L", "M",
     "N", "O", "P", "Q", "R", "S", "T", "U", "V", "W", "X", "Y", "Z", "[",
     "\\", "]", "^", "_", "a", "b", "c", "d", "e", "f", "g", "h", "i",
     "j", "k", "l", "m", "n", "o", "p", "q", "r", "s", "t", "u", "v", "w",
     "x", "y", "z", "{", "|", "}", "~"}

\* ECMAScript WhiteSpace and LineTerminator characters that occur in the model
WhiteSpace == {" ", "\t", "\n", "\r", "\f"}

DigitChars == {"0", "1", "2", "3", "4", "5", "6", "7", "8", "9"}

DigitValue(c) ==
    CASE c = "0" -> 0 [] c = "1" -> 1 [] c = "2" -> 2 [] c = "3" -> 3
      [] c = "4" -> 4 [] c = "5" -> 5 [] c = "6" -> 6 [] c = "7" -> 7
      [] c = "8" -> 8 [] c = "9" -> 9

----------------------------------------------------------------------------
(* String primitives (String.prototype) *)

\* s.startsWith(p)
StartsWith(s, p) ==
    /\ Len(p) <= Len(s)
    /\ SubSeq(s, 1, Len(p)) = p

\* s.slice(n), n >= 0
Slice(s, n) == SubSeq(s, n + 1, Len(s))

\* s.slice(0, n)
SliceTo(s, n) == SubSeq(s, 1, n)

\* s.indexOf("\n"): zero-based, -1 when absent
IndexOfNewline(s) ==
    IF \E i \in 1..Len(s) : s[i] = "\n"
    THEN (CHOOSE i \in 1..Len(s) :
             /\ s[i] = "\n"
             /\ \A j \in 1..(i - 1) : s[j] # "\n") - 1
    ELSE -1

\* s.replace(/\r/g, "")
RemoveCR(s) == SelectSeq(s, LAMBDA c : c # "\r")

\* number of consecutive characters of s, from (one-based) index i, in class S
RECURSIVE RunLength(_, _, _)
RunLength(s, i, S) ==
    IF i <= Len(s) /\ s[i] \in S THEN 1 + RunLength(s, i + 1, S) ELSE 0

\* length of the match of ANSI_ESCAPE_REGEX at the start of s, 0 for no match.
\* The three classes are pairwise disjoint, so the greedy match is the only one.
AnsiMatchLength(s) ==
    IF Len(s) >= 3 /\ s[1] = ESC /\ s[2] = "["
    THEN LET p == RunLength(s, 3, AnsiParamChars)
             q == RunLength(s, 3 + p, AnsiIntermediateChars)
             f == 3 + p + q
         IN  IF f <= Len(s) /\ s[f] \in AnsiFinalChars THEN f ELSE 0
    ELSE 0

\* value.replace(ANSI_ESCAPE_REGEX, "")
RECURSIVE stripAnsi(_)
stripAnsi(value) ==
    IF value = <<>> THEN <<>>
    ELSE LET n == AnsiMatchLength(value)
         IN  IF n > 0 THEN stripAnsi(Slice(value, n))
             ELSE <<Head(value)>> \o stripAnsi(Tail(value))

RECURSIVE TrimStart(_)
TrimStart(s) ==
    IF s # <<>> /\ Head(s) \in WhiteSpace THEN TrimStart(Tail(s)) ELSE s

RECURSIVE TrimEnd(_)
TrimEnd(s) ==
    IF s # <<>> /\ s[Len(s)] \in WhiteSpace
    THEN TrimEnd(SubSeq(s, 1, Len(s) - 1)) ELSE s

\* s.trim()
Trim(s) == TrimEnd(TrimStart(s))

\* value of the decimal digits d (a sequence of digit characters)
RECURSIVE DecimalValue(_)
DecimalValue(d) ==
    IF d = <<>> THEN 0
    ELSE 10 * DecimalValue(SubSeq(d, 1, Len(d) - 1)) + DigitValue(d[Len(d)])

\* faulty variant: only the first digit is read
ParseIntMutant(s) ==
    LET t == TrimStart(s)
    IN  IF t # <<>> /\ Head(t) \in DigitChars THEN Num(DigitValue(Head(t)))
        ELSE NaN

\* Number.parseInt(s, 10): leading white space is skipped, one sign is taken,
\* then the longest run of digits; NaN when that run is empty.  Whatever
\* follows the digits is ignored.
ParseInt(s) ==
    LET t == TrimStart(s)
        neg == t # <<>> /\ Head(t) = "-"
        signed == t # <<>> /\ Head(t) \in {"-", "+"}
        u == IF signed THEN Tail(t) ELSE t
        n == RunLength(u, 1, DigitChars)
    IN  IF n = 0 THEN NaN
        ELSE IF neg THEN Num(0 - DecimalValue(SubSeq(u, 1, n)))
        ELSE Num(DecimalValue(SubSeq(u, 1, n)))

----------------------------------------------------------------------------
(* The line processor of streamCommand *)

BoilerplateLines ==
    { <<"P", "S", "1", "=">>,
      <<"s", "t", "t", "y", " ", "-", "e", "c", "h", "o">>,
      <<"s", "t", "t", "y", " ", "e", "c", "h", "o">>,
      <<"e", "x", "i", "t">>,
      <<"l", "o", "g", "o", "u", "t">> }

PrintfSentinelPrefix ==
    <<"p", "r", "i", "n", "t", "f", " ", "'">> \o EXIT_SENTINEL_PREFIX

shouldSuppressLine(line, marker) ==
    \/ StartsWith(line, marker \o <<":">>)
    \/ StartsWith(line, PrintfSentinelPrefix)
    \/ line \in BoilerplateLines

\* faulty variant: the prompt prefix is left on the line
flushLineMutant(st, line, marker, vb) ==
    LET normalized == stripAnsi(RemoveCR(line))
        detectionTarget == Trim(normalized)
        seen == [st EXCEPT !.flushed = Append(@, line)]
    IN  IF StartsWith(detectionTarget, marker \o <<":">>)
        THEN LET code == ParseInt(Slice(detectionTarget, Len(marker) + 1))
             IN  IF code # NaN THEN [seen EXCEPT !.captured = code] ELSE seen
        ELSE IF ~vb /\ shouldSuppressLine(detectionTarget, marker)
        THEN seen
        ELSE LET outputLine == IF ~vb THEN normalized ELSE line
             IN  IF Len(outputLine) > 0
                 THEN [seen EXCEPT !.out = Append(@, outputLine \o <<"\n">>)]
                 ELSE seen

\* faulty variant: the sentinel of any run is taken for this run's
flushLineAnyMarkerMutant(st, line, marker, vb) ==
    LET normalized == stripAnsi(RemoveCR(line))
        withoutPrompt ==
            IF StartsWith(normalized, PROMPT_PREFIX)
            THEN Slice(normalized, Len(PROMPT_PREFIX))
            ELSE normalized
        detectionTarget == Trim(withoutPrompt)
        seen == [st EXCEPT !.flushed = Append(@, line)]
    IN  IF StartsWith(detectionTarget, EXIT_SENTINEL_PREFIX)
        THEN LET code == ParseInt(Slice(detectionTarget, Len(marker) + 1))
             IN  IF code # NaN THEN [seen EXCEPT !.captured = code] ELSE seen
        ELSE IF ~vb /\ shouldSuppressLine(detectionTarget, marker)
        THEN seen
        ELSE LET outputLine == IF ~vb THEN withoutPrompt ELSE line
             IN  IF Len(outputLine) > 0
                 THEN [seen EXCEPT !.out = Append(@, outputLine \o <<"\n">>)]
                 ELSE seen

\* faulty variant: a sentinel line whose suffix is no number is handled as an
\* ordinary line
flushLineNaNMutant(st, line, marker, vb) ==
    LET normalized == stripAnsi(RemoveCR(line))
        withoutPrompt ==
            IF StartsWith(normalized, PROMPT_PREFIX)
            THEN Slice(normalized, Len(PROMPT_PREFIX))
            ELSE normalized
        detectionTarget == Trim(withoutPrompt)
        seen == [st EXCEPT !.flushed = Append(@, line)]
        code == IF StartsWith(detectionTarget, marker \o <<":">>)
                THEN ParseInt(Slice(detectionTarget, Len(marker) + 1))
                ELSE NaN
    IN  IF code # NaN
        THEN [seen EXCEPT !.captured = code]
        ELSE IF ~vb /\ shouldSuppressLine(detectionTarget, marker)
        THEN seen
        ELSE LET outputLine == IF ~vb THEN withoutPrompt ELSE line
             IN  IF Len(outputLine) > 0
                 THEN [seen EXCEPT !.out = Append(@, outputLine \o <<"\n">>)]
                 ELSE seen

\* st is the closure state of streamCommand together with the process's
\* standard output: [buffer, captured, out, flushed]
flushLine(st, line, marker, vb) ==
    LET normalized == stripAnsi(RemoveCR(line))
        withoutPrompt ==
            IF StartsWith(normalized, PROMPT_PREFIX)
            THEN Slice(normalized, Len(PROMPT_PREFIX))
            ELSE normalized
        detectionTarget == Trim(withoutPrompt)
        \* history only: the line was handed to flushLine
        seen == [st EXCEPT !.flushed = Append(@, line)]
    IN  IF StartsWith(detectionTarget, marker \o <<":">>)
        THEN LET code == ParseInt(Slice(detectionTarget, Len(marker) + 1))
             IN  IF code # NaN THEN [seen EXCEPT !.captured = code] ELSE seen
        ELSE IF ~vb /\ shouldSuppressLine(detectionTarget, marker)
        THEN seen
        ELSE LET outputLine == IF ~vb THEN withoutPrompt ELSE line
             IN  IF Len(outputLine) > 0
                 THEN [seen EXCEPT !.out = Append(@, outputLine \o <<"\n">>)]
                 ELSE seen

\* the while loop of the stdout case: flush every complete line of the buffer
RECURSIVE DrainLines(_, _, _)
DrainLines(st, marker, vb) ==
    LET newlineIndex == IndexOfNewline(st.buffer)
    IN  IF newlineIndex = -1 THEN st
        ELSE DrainLines(
                 flushLine([st EXCEPT !.buffer = Slice(@, newlineIndex + 1)],
                           SliceTo(st.buffer, newlineIndex), marker, vb),
                 marker, vb)

\* faulty variant: the frame replaces the buffer instead of being appended
StdoutCaseMutant(st, text, marker, vb) ==
    DrainLines([st EXCEPT !.buffer = text], marker, vb)

\* stdoutBuffer += frame[1], then the loop
StdoutCase(st, text, marker, vb) ==
    DrainLines([st EXCEPT !.buffer = @ \o text], marker, vb)

\* faulty variant: the trailing partial line is dropped
CloseFlushMutant(st, marker, vb) == [st EXCEPT !.buffer = <<>>]

\* the flush of the close listener
CloseFlush(st, marker, vb) ==
    IF Len(st.buffer) > 0
    THEN [flushLine(st, st.buffer, marker, vb) EXCEPT !.buffer = <<>>]
    ELSE st

----------------------------------------------------------------------------
(* Wire data.  A websocket message is JSON text: either the text of an array
   [tag, argument], written Frame(tag, argument), or text JSON.parse (or the
   indexing of its result) throws on, written Garbage. *)

Frame(tag, arg) == <<"json", tag, arg>>
Garbage == <<"garbage">>

\* JSON.stringify(["stdin", payload])
StdinFrame(payload) == Frame("stdin", payload)

\* parts.join("\n")
RECURSIVE JoinLines(_)
JoinLines(parts) ==
    IF parts = <<>> THEN <<>>
    ELSE IF Len(parts) = 1 THEN parts[1]
    ELSE parts[1] \o <<"\n">> \o JoinLines(Tail(parts))

\* faulty variant: echo is switched back on before the status is captured
PayloadMutant(cmd, marker) ==
    JoinLines(<<
        <<"s", "t", "t", "y", " ", "-", "e", "c", "h", "o">>,
        <<"P", "S", "1", "=">>,
        cmd,
        <<"s", "t", "t", "y", " ", "e", "c", "h", "o">>,
        <<"_", "_", "C", "O", "L", "A", "B", "_", "C", "L", "I", "_",
          "S", "T", "A", "T", "U", "S", "=", "$", "?">>,
        <<"p", "r", "i", "n", "t", "f", " ", "'">> \o marker \o
            <<":", "%", "s", "\\", "n", "'", " ", "\"", "$", "_", "_", "C",
              "O", "L", "A", "B", "_", "C", "L", "I", "_", "S", "T", "A",
              "T", "U", "S", "\"">>,
        <<"e", "x", "i", "t">>,
        <<>> >>)

\* the payload array of streamCommand, joined
Payload(cmd, marker) ==
    JoinLines(<<
        <<"s", "t", "t", "y", " ", "-", "e", "c", "h", "o">>,
        <<"P", "S", "1", "=">>,
        cmd,
        <<"_", "_", "C", "O", "L", "A", "B", "_", "C", "L", "I", "_",
          "S", "T", "A", "T", "U", "S", "=", "$", "?">>,
        <<"s", "t", "t", "y", " ", "e", "c", "h", "o">>,
        <<"p", "r", "i", "n", "t", "f", " ", "'">> \o marker \o
            <<":", "%", "s", "\\", "n", "'", " ", "\"", "$", "_", "_", "C",
              "O", "L", "A", "B", "_", "C", "L", "I", "_", "S", "T", "A",
              "T", "U", "S", "\"">>,
        <<"e", "x", "i", "t">>,
        <<>> >>)

----------------------------------------------------------------------------
(* Inputs: what the caller and the remote side may supply *)

Commands == { <<>>, <<" ", "\t">>, <<"l", "s">> }

\* values of randomUUID(): that of this run, and those of earlier runs
UUIDs == { <<"b", "2">> }
EarlierUUIDs == { <<"a", "1">> }

\* a marker of another run
OtherMarker(marker) ==
    EXIT_SENTINEL_PREFIX \o
        (CHOOSE u \in UUIDs \cup EarlierUUIDs :
            EXIT_SENTINEL_PREFIX \o u # marker)

Min(a, b) == IF a <= b THEN a ELSE b

hi == <<"h", "i">>
NL == <<"\n">>
CRLF == <<"\r", "\n">>

\* the stdout texts the remote terminal may produce during one run; a run
\* receives a prefix of one of them, cut into frames at arbitrary places
RemoteTexts(m) ==
    { hi \o NL \o m \o <<":", "0">> \o NL,
      hi \o NL \o m \o <<":", "1", "3", "7">> \o NL,
      hi \o CRLF \o m \o <<":", "0">> \o CRLF \o <<"l", "o", "g", "o", "u", "t">> \o CRLF,
      hi \o NL \o m \o <<":", "a", "b", "c">> \o NL,
      hi \o NL \o m \o <<":", "0", "a", "b", "c">> \o NL,
      hi \o NL \o m \o <<":", "7">>,
      hi \o NL \o <<"h", "o">>,
      m \o <<":", "3">> \o NL \o m \o <<":", "x">> \o NL \o m \o <<":", "2">> \o NL,
      m \o <<":", "3">> \o NL \o m \o <<":", "0", "a", "b", "c">> \o NL,
      NL \o <<"x">> \o m \o <<":", "0">> \o NL \o m \o <<":", " ", "5">> \o NL,
      OtherMarker(m) \o <<":", "0">> \o NL \o m \o <<":", "-", "1">> \o NL,
      PROMPT_PREFIX \o <<ESC, "[", "1", ";", "3", "2", "m">> \o hi
          \o <<ESC, "[", "0", "m">> \o NL
          \o PROMPT_PREFIX \o m \o <<":", "4">> \o NL }

StderrTexts(m) ==
    { m \o <<":", "0">> \o NL,
      PROMPT_PREFIX \o <<ESC, "[", "0", "m", "e", "x", "i", "t", "\r", "\n", "x">> }

\* the remote terminal echoing the payload it was sent
PayloadEcho == Payload(command, exitMarker)

\* the echo arrives line by line
EchoFrames ==
    IF /\ Len(received) < Len(PayloadEcho)
       /\ SubSeq(PayloadEcho, 1, Len(received)) = received
    THEN LET rest == Slice(PayloadEcho, Len(received))
         IN  { Frame("stdout", SliceTo(rest, IndexOfNewline(rest) + 1)) }
    ELSE {}

\* the stdout frames that may arrive next
NextStdoutFrames ==
    EchoFrames \cup
    UNION { { Frame("stdout", SubSeq(t, Len(received) + 1, Len(received) + k)) :
                k \in 1..Min(MaxFrameLen, Len(t) - Len(received)) } :
            t \in { x \in RemoteTexts(exitMarker) :
                      /\ Len(received) <= Len(x)
                      /\ SubSeq(x, 1, Len(received)) = received } }

\* the other messages that may arrive
DisconnectFrames == { Frame("disconnect", <<"b", "y", "e">>) }

\* frames whose tag the switch does not know
UnknownFrames ==
    { Frame("stdin", hi \o NL),
      Frame("set_size", <<>>),
      Frame("ping", <<>>) }

StderrFrames == { Frame("stderr", t) : t \in StderrTexts(exitMarker) }

OtherMessages ==
    StderrFrames \cup DisconnectFrames \cup UnknownFrames \cup { Garbage }

----------------------------------------------------------------------------
(* The run *)

\* faulty variant: a later resolve / reject replaces an earlier one
SettleMutant(promise, value) == value

\* settling a promise: only the first resolve / reject counts
Settle(promise, value) == IF promise = Pending THEN value ELSE promise

StreamState ==
    [buffer |-> stdoutBuffer, captured |-> capturedExitCode, out |-> out,
     flushed |-> flushed]

\* responses to the create-terminal request
Responses ==
    { [ok |-> TRUE, name |-> <<"t", "1">>], [ok |-> FALSE, name |-> Undefined] }

Init ==
    /\ command \in Commands
    /\ verbose \in BOOLEAN
    /\ pc = "start"
    /\ outcome = Pending
    /\ httpRequests = 0
    /\ terminalName = Undefined
    /\ sockets = 0
    /\ readyState = "NONE"
    /\ listeners = {}
    /\ exitMarker = <<>>
    /\ sent = <<>>
    /\ stdoutBuffer = <<>>
    /\ capturedExitCode = Undefined
    /\ out = <<>>
    /\ err = <<>>
    /\ warnings = <<>>
    /\ logs = <<>>
    /\ received = <<>>
    /\ flushed = <<>>
    /\ carried = FALSE
    /\ opened = FALSE
    /\ otherFrames = 0
    /\ closeEvents = 0
    /\ errorEvents = 0
    /\ others = {}
    /\ errMidLine = FALSE
    /\ lineParts = <<>>
    /\ cliCommand \in {"run", "connect"}
    /\ cli = "createApp"
    /\ accessToken = Undefined
    /\ runtime = Undefined
    /\ runners = 0
    /\ terminalSessions = 0
    /\ processExitCode = Undefined
    /\ exitStatus = Undefined
    /\ config = [stage |-> "idle"]

\* !command.trim()
IsBlankMutant(cmd) == cmd = <<>>
IsBlank(cmd) == Trim(cmd) = <<>>

\* run(command) up to its first await
Run ==
    /\ cli = "run"
    /\ pc = "start"
    /\ IF IsBlank(command)
       THEN /\ outcome' = Rejected("Cannot run an empty command")
            /\ pc' = "done"
            /\ UNCHANGED <<logs, httpRequests>>
       ELSE /\ logs' = IF verbose THEN Append(logs, "Running remote command")
                       ELSE logs
            /\ httpRequests' = httpRequests + 1
            /\ pc' = "fetching"
            /\ UNCHANGED outcome
    /\ UNCHANGED <<others, errMidLine, lineParts, cliVars>>
    /\ UNCHANGED <<command, verbose, terminalName, sockets, readyState,
                   listeners, exitMarker, sent, stdoutBuffer,
                   capturedExitCode, out, err, warnings, received, flushed,
                   carried, opened, otherFrames, closeEvents, errorEvents>>

\* faulty variant: the response status is not looked at
CreateTerminalResponseMutant(res) ==
    /\ pc = "fetching"
    /\ terminalName' = res.name
    /\ sockets' = sockets + 1
    /\ readyState' = "CONNECTING"
    /\ pc' = "connecting"
    /\ UNCHANGED <<others, errMidLine, lineParts, cliVars>>
    /\ UNCHANGED <<command, verbose, outcome, httpRequests, listeners,
                   exitMarker, sent, stdoutBuffer, capturedExitCode, out, err,
                   warnings, logs, received, flushed, carried, opened,
                   otherFrames, closeEvents, errorEvents>>

\* the create-terminal response arrives; on success run() goes on into
\* executeInTerminal, constructs the socket and awaits its open event
CreateTerminalResponse(res) ==
    /\ pc = "fetching"
    /\ IF ~res.ok
       THEN /\ outcome' = Rejected("Failed to create remote terminal")
            /\ pc' = "done"
            /\ UNCHANGED <<terminalName, sockets, readyState>>
       ELSE /\ terminalName' = res.name
            /\ sockets' = sockets + 1
            /\ readyState' = "CONNECTING"
            /\ pc' = "connecting"
            /\ UNCHANGED outcome
    /\ UNCHANGED <<others, errMidLine, lineParts, cliVars>>
    /\ UNCHANGED <<command, verbose, httpRequests, listeners, exitMarker,
                   sent, stdoutBuffer, capturedExitCode, out, err, warnings,
                   logs, received, flushed, carried, opened, otherFrames,
                   closeEvents, errorEvents>>

\* the socket's open event: resolves the awaited promise
OnOpen ==
    /\ pc = "connecting"
    /\ readyState = "CONNECTING"
    /\ readyState' = "OPEN"
    /\ opened' = TRUE
    /\ pc' = "opened"
    /\ UNCHANGED <<others, errMidLine, lineParts, cliVars>>
    /\ UNCHANGED <<command, verbose, outcome, httpRequests, terminalName,
                   sockets, listeners, exitMarker, sent, stdoutBuffer,
                   capturedExitCode, out, err, warnings, logs, received,
                   flushed, carried, otherFrames, closeEvents, errorEvents>>

\* the socket's error event before open: rejects the awaited promise; the
\* socket then closes with no close listener registered
OnConnectError ==
    /\ pc = "connecting"
    /\ readyState = "CONNECTING"
    /\ readyState' = "CLOSED"
    /\ outcome' = Rejected("socket error")
    /\ errorEvents' = errorEvents + 1
    /\ pc' = "done"
    /\ UNCHANGED <<others, errMidLine, lineParts, cliVars>>
    /\ UNCHANGED <<command, verbose, httpRequests, terminalName, sockets,
                   listeners, exitMarker, sent, stdoutBuffer,
                   capturedExitCode, out, err, warnings, logs, received,
                   flushed, carried, opened, otherFrames, closeEvents>>

\* after the await: the marker is made and streamCommand registers its
\* message, close and error listeners
RegisterListeners(uuid) ==
    /\ pc = "opened"
    /\ exitMarker' = EXIT_SENTINEL_PREFIX \o uuid
    /\ stdoutBuffer' = <<>>
    /\ capturedExitCode' = Undefined
    /\ listeners' = {"message", "close", "error"}
    /\ pc' = "registered"
    /\ UNCHANGED <<others, errMidLine, lineParts, cliVars>>
    /\ UNCHANGED <<command, verbose, outcome, httpRequests, terminalName,
                   sockets, readyState, sent, out, err, warnings, logs,
                   received, flushed, carried, opened, otherFrames,
                   closeEvents, errorEvents>>

\* faulty variant: the payload is sent without awaiting the open event
SendPayloadMutant ==
    /\ pc = "connecting"
    /\ sent = <<>>
    /\ sent' = Append(sent, StdinFrame(Payload(command, exitMarker)))
    /\ UNCHANGED <<others, errMidLine, lineParts, cliVars>>
    /\ UNCHANGED <<command, verbose, pc, outcome, httpRequests, terminalName,
                   sockets, readyState, listeners, exitMarker, stdoutBuffer,
                   capturedExitCode, out, err, warnings, logs, received,
                   flushed, carried, opened, otherFrames, closeEvents,
                   errorEvents>>

\* streamCommand builds the payload and sends it; run() now awaits exitPromise
SendPayload ==
    /\ pc = "registered"
    /\ sent' = Append(sent, StdinFrame(Payload(command, exitMarker)))
    /\ pc' = "streaming"
    /\ UNCHANGED <<others, errMidLine, lineParts, cliVars>>
    /\ UNCHANGED <<command, verbose, outcome, httpRequests, terminalName,
                   sockets, readyState, listeners, exitMarker, stdoutBuffer,
                   capturedExitCode, out, err, warnings, logs, received,
                   flushed, carried, opened, otherFrames, closeEvents,
                   errorEvents>>

\* what the close listener resolves exitPromise with
ExitCodeAtCloseMutant(captured) ==
    IF captured = Undefined THEN Num(0) ELSE captured
ExitCodeAtClose(captured) ==
    IF captured = Undefined THEN Num(1) ELSE captured

\* faulty variant: without a captured exit code the close listener warns but
\* does not resolve
CloseListenerMutant ==
    LET st == CloseFlush(StreamState, exitMarker, verbose)
    IN  /\ stdoutBuffer' = st.buffer
        /\ capturedExitCode' = st.captured
        /\ out' = st.out
        /\ flushed' = st.flushed
        /\ warnings' =
              IF st.captured = Undefined
              THEN Append(warnings,
                          "Command finished without reporting an exit code")
              ELSE warnings
        /\ outcome' = IF st.captured = Undefined THEN outcome
                      ELSE Settle(outcome, Resolved(st.captured))
        /\ closeEvents' = closeEvents + 1

\* the body of the close listener
CloseListener ==
    LET st == CloseFlush(StreamState, exitMarker, verbose)
    IN  /\ stdoutBuffer' = st.buffer
        /\ capturedExitCode' = st.captured
        /\ out' = st.out
        /\ flushed' = st.flushed
        /\ warnings' =
              IF st.captured = Undefined
              THEN Append(warnings,
                          "Command finished without reporting an exit code")
              ELSE warnings
        /\ outcome' = Settle(outcome, Resolved(ExitCodeAtClose(st.captured)))
        /\ closeEvents' = closeEvents + 1

\* the cases of the message listener's switch, and its catch block
StdoutFrameCase(arg) ==
    LET st == StdoutCase(StreamState, arg, exitMarker, verbose)
    IN  /\ stdoutBuffer' = st.buffer
        /\ capturedExitCode' = st.captured
        /\ out' = st.out
        /\ flushed' = st.flushed
        /\ received' = received \o arg
        /\ carried' = (carried \/ stdoutBuffer # <<>>)
        /\ UNCHANGED <<err, warnings, logs, outcome, closeEvents>>

\* faulty variant: stderr text is cleaned like a stdout line
StderrFrameCaseMutant(arg) ==
    /\ err' = Append(err, stripAnsi(RemoveCR(arg)))
    /\ UNCHANGED <<stdoutBuffer, capturedExitCode, out, warnings, logs,
                   received, flushed, carried, outcome, closeEvents>>

StderrFrameCase(arg) ==
    /\ err' = Append(err, arg)
    /\ UNCHANGED <<stdoutBuffer, capturedExitCode, out, warnings, logs,
                   received, flushed, carried, outcome, closeEvents>>

\* faulty variant: a disconnect frame is taken for the end of the run
DisconnectFrameCaseMutant ==
    /\ CloseListener
    /\ UNCHANGED <<err, logs, received, carried>>

DisconnectFrameCase ==
    /\ logs' = IF verbose THEN Append(logs, "Remote runtime disconnected.")
               ELSE logs
    /\ UNCHANGED <<stdoutBuffer, capturedExitCode, out, err, warnings,
                   received, flushed, carried, outcome, closeEvents>>

\* faulty variant: a frame with an unknown tag fails the run
DefaultCaseMutant ==
    /\ outcome' = Settle(outcome, Rejected("unknown frame"))
    /\ UNCHANGED <<stdoutBuffer, capturedExitCode, out, err, warnings, logs,
                   received, flushed, carried, closeEvents>>

DefaultCase ==
    UNCHANGED <<stdoutBuffer, capturedExitCode, out, err, warnings, logs,
                received, flushed, carried, outcome, closeEvents>>

\* faulty variant: a frame that does not parse empties the line buffer
CatchBlockMutant ==
    /\ warnings' = Append(warnings, "Failed to parse terminal frame")
    /\ stdoutBuffer' = <<>>
    /\ UNCHANGED <<capturedExitCode, out, err, logs, received,
                   flushed, carried, outcome, closeEvents>>

CatchBlock ==
    /\ warnings' = Append(warnings, "Failed to parse terminal frame")
    /\ UNCHANGED <<stdoutBuffer, capturedExitCode, out, err, logs, received,
                   flushed, carried, outcome, closeEvents>>

\* the message listener; the socket emits message events only while open
OnMessage(data) ==
    /\ pc = "streaming"
    /\ readyState = "OPEN"
    /\ "message" \in listeners
    /\ IF data = Garbage THEN CatchBlock
       ELSE CASE data[2] = "stdout" -> StdoutFrameCase(data[3])
              [] data[2] = "stderr" -> StderrFrameCase(data[3])
              [] data[2] = "disconnect" -> DisconnectFrameCase
              [] OTHER -> DefaultCase
    /\ otherFrames' = IF data # Garbage /\ data[2] = "stdout"
                      THEN otherFrames ELSE otherFrames + 1
    /\ others' = IF data # Garbage /\ data[2] = "stdout" THEN others
               ELSE others \cup { IF data = Garbage THEN "garbage" ELSE data[2] }
    /\ errMidLine' = \/ errMidLine
                     \/ data # Garbage /\ data[2] = "stderr" /\ stdoutBuffer # <<>>
    /\ UNCHANGED <<lineParts, cliVars>>
    /\ UNCHANGED <<command, verbose, pc, httpRequests, terminalName, sockets,
                   readyState, listeners, exitMarker, sent, opened,
                   errorEvents>>

\* the close listener (registered with once); the socket emits close once,
\* after open or after an error, and nothing after it
OnClose ==
    /\ cli # "exited"
    /\ pc \in {"streaming", "done"}
    /\ readyState \in {"OPEN", "CLOSING"}
    /\ "close" \in listeners
    /\ CloseListener
    /\ listeners' = listeners \ {"close"}
    /\ readyState' = "CLOSED"
    /\ pc' = "done"
    /\ UNCHANGED <<others, errMidLine, lineParts, cliVars>>
    /\ UNCHANGED <<command, verbose, httpRequests, terminalName, sockets,
                   exitMarker, sent, err, logs, received, carried, opened,
                   otherFrames, errorEvents>>

\* the error listener (registered with once); after an error the socket
\* delivers no more messages and closes
OnError ==
    /\ pc = "streaming"
    /\ readyState = "OPEN"
    /\ "error" \in listeners
    /\ outcome' = Settle(outcome, Rejected("socket error"))
    /\ listeners' = listeners \ {"error"}
    /\ readyState' = "CLOSING"
    /\ errorEvents' = errorEvents + 1
    /\ pc' = "done"
    /\ UNCHANGED <<others, errMidLine, lineParts, cliVars>>
    /\ UNCHANGED <<command, verbose, httpRequests, terminalName, sockets,
                   exitMarker, sent, stdoutBuffer, capturedExitCode, out, err,
                   warnings, logs, received, flushed, carried, opened,
                   otherFrames, closeEvents>>

----------------------------------------------------------------------------
(* The CLI commands run and connect around the runner.  An exception thrown
   inside a command's action reaches program.parseAsync().catch, which calls
   process.exit(1). *)

Exit1 ==
    /\ exitStatus' = Num(1)
    /\ cli' = "exited"

\* withApp: createApp (loadConfig and the clients) succeeds or throws
CreateApp(ok) ==
    /\ cli = "createApp"
    /\ IF ok THEN cli' = "getAccessToken" /\ UNCHANGED exitStatus ELSE Exit1
    /\ UNCHANGED <<cliCommand, accessToken, runtime, runners,
                   terminalSessions, processExitCode, logs>>
    /\ UNCHANGED <<config, runnerVars>>

\* auth.getAccessToken returns a session or throws
GetAccessToken(ok) ==
    /\ cli = "getAccessToken"
    /\ IF ok
       THEN /\ accessToken' = <<"session">>
            /\ logs' = Append(logs, "Authenticated as")
            /\ cli' = "assignRuntime"
            /\ UNCHANGED exitStatus
       ELSE /\ Exit1
            /\ UNCHANGED <<accessToken, logs>>
    /\ UNCHANGED <<cliCommand, runtime, runners, terminalSessions,
                   processExitCode>>
    /\ UNCHANGED <<config, runnerVars>>

\* faulty variant: the channel is set up although no runtime was assigned
AssignRuntimeMutant(ok) ==
    /\ cli = "assignRuntime"
    /\ runtime' = IF ok THEN <<"runtime">> ELSE runtime
    /\ IF cliCommand = "run"
       THEN runners' = runners + 1 /\ cli' = "run"
            /\ UNCHANGED terminalSessions
       ELSE terminalSessions' = terminalSessions + 1 /\ cli' = "start"
            /\ UNCHANGED runners
    /\ UNCHANGED <<cliCommand, accessToken, processExitCode, exitStatus, logs>>
    /\ UNCHANGED <<config, runnerVars>>

\* runtimeManager.assignRuntime returns a runtime or throws; with a runtime
\* the action constructs the runner (run) or the terminal session (connect)
\* and calls run() / start()
AssignRuntime(ok) ==
    /\ cli = "assignRuntime"
    /\ IF ok
       THEN /\ runtime' = <<"runtime">>
            /\ IF cliCommand = "run"
               THEN runners' = runners + 1 /\ cli' = "run"
                    /\ UNCHANGED terminalSessions
               ELSE terminalSessions' = terminalSessions + 1 /\ cli' = "start"
                    /\ UNCHANGED runners
            /\ UNCHANGED exitStatus
       ELSE /\ Exit1
            /\ UNCHANGED <<runtime, runners, terminalSessions>>
    /\ UNCHANGED <<cliCommand, accessToken, processExitCode, logs>>
    /\ UNCHANGED <<config, runnerVars>>

\* connect: terminal.start() returns or throws
TerminalStart(ok) ==
    /\ cli = "start"
    /\ IF ok THEN cli' = "returned" /\ UNCHANGED exitStatus ELSE Exit1
    /\ UNCHANGED <<cliCommand, accessToken, runtime, runners,
                   terminalSessions, processExitCode, logs>>
    /\ UNCHANGED <<config, runnerVars>>

\* faulty variant: the exit code of the run is dropped
RunReturnsMutant ==
    /\ cli = "run"
    /\ outcome # Pending
    /\ IF outcome[1] = "resolved"
       THEN /\ processExitCode' = Num(0)
            /\ cli' = "returned"
            /\ UNCHANGED exitStatus
       ELSE /\ Exit1
            /\ UNCHANGED processExitCode
    /\ UNCHANGED <<cliCommand, accessToken, runtime, runners,
                   terminalSessions, logs>>
    /\ UNCHANGED <<config, runnerVars>>

\* run: the await of runner.run(commandString) returns the exit code, which
\* is stored in process.exitCode, or throws
RunReturns ==
    /\ cli = "run"
    /\ outcome # Pending
    /\ IF outcome[1] = "resolved"
       THEN /\ processExitCode' = outcome[2]
            /\ cli' = "returned"
            /\ UNCHANGED exitStatus
       ELSE /\ Exit1
            /\ UNCHANGED processExitCode
    /\ UNCHANGED <<cliCommand, accessToken, runtime, runners,
                   terminalSessions, logs>>
    /\ UNCHANGED <<config, runnerVars>>

Next ==
    \/ \E ok \in BOOLEAN : CreateApp(ok)
    \/ \E ok \in BOOLEAN : GetAccessToken(ok)
    \/ \E ok \in BOOLEAN : AssignRuntime(ok)
    \/ \E ok \in BOOLEAN : TerminalStart(ok)
    \/ RunReturns
    \/ Run
    \/ \E res \in Responses : CreateTerminalResponse(res)
    \/ OnOpen
    \/ OnConnectError
    \/ \E uuid \in UUIDs : RegisterListeners(uuid)
    \/ SendPayload
    \/ \E data \in NextStdoutFrames : OnMessage(data)
    \/ \E data \in OtherMessages :
          otherFrames < MaxOtherFrames /\ OnMessage(data)
    \/ OnClose
    \/ OnError

Spec == Init /\ [][Next]_vars

\* the guard of OnClose: the close listener is registered on a socket that
\* has not closed, in a process that has not exited
CloseEnabled ==
    /\ cli # "exited"
    /\ pc \in {"streaming", "done"}
    /\ readyState \in {"OPEN", "CLOSING"}
    /\ "close" \in listeners

\* weak fairness of OnClose, written with its guard for the enabling
\* condition: the socket's close event is not withheld for ever
CloseFairness == []<>(~CloseEnabled) \/ []<><<OnClose>>_vars

\* the remote shell exits after the payload, so the socket's close event comes
LiveSpec == Init /\ [][Next]_vars /\ CloseFairness

----------------------------------------------------------------------------
(* A user interrupt during a run.  Neither the CLI nor the runner registers
   a handler for SIGINT and nothing calls socket.close(), so the signal ends
   the process as Node does by default: no listener runs afterwards. *)

Signal(name) == <<"signal", name>>

Interrupt ==
    /\ cli = "run"
    /\ pc = "streaming"
    /\ cli' = "exited"
    /\ exitStatus' = Signal("SIGINT")
    /\ UNCHANGED <<cliCommand, accessToken, runtime, runners,
                   terminalSessions, processExitCode, logs>>
    /\ UNCHANGED <<config, runnerVars>>

NextCancel == Next \/ Interrupt

CancelSpec == Init /\ [][NextCancel]_vars

----------------------------------------------------------------------------
(* An error event after the close event.  The error listener is registered
   with once and is still registered after the close listener has run; here
   the socket may emit error on a closed socket as well. *)

OnLateError ==
    /\ cli # "exited"
    /\ pc = "done"
    /\ readyState = "CLOSED"
    /\ "error" \in listeners
    /\ closeEvents = 1
    /\ outcome' = Settle(outcome, Rejected("socket error"))
    /\ listeners' = listeners \ {"error"}
    /\ errorEvents' = errorEvents + 1
    /\ UNCHANGED <<others, errMidLine, lineParts, cliVars>>
    /\ UNCHANGED <<command, verbose, pc, httpRequests, terminalName, sockets,
                   readyState, exitMarker, sent, stdoutBuffer,
                   capturedExitCode, out, err, warnings, logs, received,
                   flushed, carried, opened, otherFrames, closeEvents>>

NextLateError == Next \/ OnLateError

LateErrorSpec == Init /\ [][NextLateError]_vars

----------------------------------------------------------------------------
(* flushLine on its own: one line, made of escape sequences and the prompt
   prefix around a string s, is handed to flushLine of a fresh stream. *)

EscapeSequences ==
    { <<>>, <<ESC, "[", "0", "m">>, <<ESC, "[", "1", ";", "3", "2", "m">> }

\* the strings s
Remainders ==
    { <<"h", "i">>,
      <<" ", "h", "i", " ">>,
      <<>>,
      <<"e", "x", "i", "t">>,
      <<"e", "x", "i", "t", "s">>,
      <<"P", "S", "1", "=">>,
      PrintfSentinelPrefix,
      <<"a", "\r", "b">>,
      <<"x", ESC, "[", "0", "m", "y">>,
      <<"/", "#", " ", "x">> }

LineParts ==
    [e1 : EscapeSequences, e2 : EscapeSequences, s : Remainders,
     e3 : EscapeSequences]

\* the line: escape sequences, the prompt prefix, escape sequences, s, escape
\* sequences
DecoratedLine(parts) ==
    parts.e1 \o PROMPT_PREFIX \o parts.e2 \o parts.s \o parts.e3

InitFlush ==
    /\ lineParts \in LineParts
    /\ verbose \in BOOLEAN
    /\ exitMarker \in { EXIT_SENTINEL_PREFIX \o uuid : uuid \in UUIDs }
    /\ pc = "flushLine"
    /\ command = <<"l", "s">>
    /\ outcome = Pending
    /\ httpRequests = 0
    /\ terminalName = Undefined
    /\ sockets = 0
    /\ readyState = "NONE"
    /\ listeners = {}
    /\ sent = <<>>
    /\ stdoutBuffer = <<>>
    /\ capturedExitCode = Undefined
    /\ out = <<>>
    /\ err = <<>>
    /\ warnings = <<>>
    /\ logs = <<>>
    /\ received = <<>>
    /\ flushed = <<>>
    /\ carried = FALSE
    /\ opened = FALSE
    /\ otherFrames = 0
    /\ closeEvents = 0
    /\ errorEvents = 0
    /\ others = {}
    /\ errMidLine = FALSE
    /\ cliCommand = "run"
    /\ cli = "run"
    /\ accessToken = Undefined
    /\ runtime = Undefined
    /\ runners = 0
    /\ terminalSessions = 0
    /\ processExitCode = Undefined
    /\ exitStatus = Undefined
    /\ config = [stage |-> "idle"]

\* flushLine(line)
FlushLineStep ==
    /\ pc = "flushLine"
    /\ LET st == flushLine(StreamState, DecoratedLine(lineParts), exitMarker,
                           verbose)
       IN  /\ stdoutBuffer' = st.buffer
           /\ capturedExitCode' = st.captured
           /\ out' = st.out
           /\ flushed' = st.flushed
    /\ pc' = "flushed"
    /\ UNCHANGED <<command, verbose, outcome, httpRequests, terminalName,
                   sockets, readyState, listeners, exitMarker, sent, err,
                   warnings, logs, received, carried, opened, otherFrames,
                   closeEvents, errorEvents, others, errMidLine,
                   lineParts>>
    /\ UNCHANGED cliVars

NextFlush == FlushLineStep

FlushSpec == InitFlush /\ [][NextFlush]_vars

----------------------------------------------------------------------------
(* loadConfig on its own: the candidate files are in some state, the
   environment holds a valid configuration or not, and loadConfig runs. *)

\* the candidates of searchOrder, before filter(Boolean)
CandidateFiles ==
    << "customPath",
       "cwd/cgpu.config.json",
       "cwd/colab-cli.config.json",
       "home/.config/cgpu/config.json",
       "home/.config/colab-cli/config.json" >>

\* what reading and parsing a candidate does: ENOENT, a configuration, a
\* ZodError, or another error (no permission, a directory, no JSON)
FileStates == { "missing", "valid", "invalid", "unreadable" }

\* searchOrder: the custom path is there only if one was given
searchOrder(customGiven) ==
    SelectSeq(CandidateFiles, LAMBDA f : f # "customPath" \/ customGiven)

FromFile(f) == <<"file", f>>
FromEnv == <<"env">>

InitConfig ==
    /\ config \in
          { c \in [stage : {"reading"},
                   files : [{ CandidateFiles[i] : i \in 1..Len(CandidateFiles) }
                              -> FileStates],
                   customGiven : BOOLEAN,
                   env : {"valid", "invalid"},
                   next : {1},
                   reads : {<<>>},
                   envRead : {FALSE},
                   parsed : {Undefined},
                   result : {Pending}] :
              ~c.customGiven => c.files["customPath"] = "missing" }
    /\ command = <<"l", "s">>
    /\ verbose = FALSE
    /\ pc = "start"
    /\ outcome = Pending
    /\ httpRequests = 0
    /\ terminalName = Undefined
    /\ sockets = 0
    /\ readyState = "NONE"
    /\ listeners = {}
    /\ exitMarker = <<>>
    /\ sent = <<>>
    /\ stdoutBuffer = <<>>
    /\ capturedExitCode = Undefined
    /\ out = <<>>
    /\ err = <<>>
    /\ warnings = <<>>
    /\ logs = <<>>
    /\ received = <<>>
    /\ flushed = <<>>
    /\ carried = FALSE
    /\ opened = FALSE
    /\ otherFrames = 0
    /\ closeEvents = 0
    /\ errorEvents = 0
    /\ others = {}
    /\ errMidLine = FALSE
    /\ lineParts = <<>>
    /\ cliCommand = "run"
    /\ cli = "createApp"
    /\ accessToken = Undefined
    /\ runtime = Undefined
    /\ runners = 0
    /\ terminalSessions = 0
    /\ processExitCode = Undefined
    /\ exitStatus = Undefined

ConfigUnchanged ==
    /\ UNCHANGED <<cliCommand, cli, accessToken, runtime, runners,
                   terminalSessions, processExitCode, exitStatus, logs>>
    /\ UNCHANGED runnerVars

\* faulty variant: a candidate that does not validate is skipped like a
\* missing one
TryCandidateMutant ==
    /\ config.stage = "reading"
    /\ config.next <= Len(searchOrder(config.customGiven))
    /\ LET candidate == searchOrder(config.customGiven)[config.next]
           read == [config EXCEPT !.reads = Append(@, candidate)]
       IN  config' =
             CASE config.files[candidate] \in {"missing", "invalid"} ->
                    [read EXCEPT !.next = @ + 1]
               [] config.files[candidate] = "valid" ->
                    [read EXCEPT !.parsed = FromFile(candidate),
                                 !.stage = "parsed"]
               [] OTHER ->
                    [read EXCEPT !.result = Rejected("Failed to read config"),
                                 !.stage = "done"]
    /\ ConfigUnchanged

\* one turn of the for loop: read and parse the next candidate
TryCandidate ==
    /\ config.stage = "reading"
    /\ config.next <= Len(searchOrder(config.customGiven))
    /\ LET candidate == searchOrder(config.customGiven)[config.next]
           read == [config EXCEPT !.reads = Append(@, candidate)]
       IN  config' =
             CASE config.files[candidate] = "missing" ->
                    [read EXCEPT !.next = @ + 1]
               [] config.files[candidate] = "valid" ->
                    [read EXCEPT !.parsed = FromFile(candidate),
                                 !.stage = "parsed"]
               [] config.files[candidate] = "invalid" ->
                    [read EXCEPT !.result =
                                     Rejected("Missing Colab OAuth credentials."),
                                 !.stage = "done"]
               [] OTHER ->
                    [read EXCEPT !.result = Rejected("Failed to read config"),
                                 !.stage = "done"]
    /\ ConfigUnchanged

\* if (!parsed): the configuration is taken from the environment variables
ParseEnv ==
    /\ config.stage = "reading"
    /\ config.next > Len(searchOrder(config.customGiven))
    /\ config' =
          IF config.env = "valid"
          THEN [config EXCEPT !.envRead = TRUE, !.parsed = FromEnv,
                              !.stage = "parsed"]
          ELSE [config EXCEPT !.envRead = TRUE,
                              !.result =
                                  Rejected("Missing Colab OAuth credentials."),
                              !.stage = "done"]
    /\ ConfigUnchanged

\* resolveStorageDir, mkdir and the return of the configuration; mkdir may
\* fail, and then loadConfig rejects with the parsed configuration in hand
ReturnConfig(ok) ==
    /\ config.stage = "parsed"
    /\ config' = [config EXCEPT !.result = IF ok THEN Resolved(config.parsed)
                                           ELSE Rejected("mkdir"),
                                !.stage = "done"]
    /\ ConfigUnchanged

NextConfig ==
    \/ TryCandidate
    \/ ParseEnv
    \/ \E ok \in BOOLEAN : ReturnConfig(ok)

ConfigSpec == InitConfig /\ [][NextConfig]_vars

----------------------------------------------------------------------------
(* Vocabulary of the properties *)

\* text.split("\n")
RECURSIVE SplitOnNewline(_)
SplitOnNewline(text) ==
    LET i == IndexOfNewline(text)
    IN  IF i = -1 THEN <<text>>
        ELSE <<SliceTo(text, i)>> \o SplitOnNewline(Slice(text, i + 1))

\* the newline-terminated lines of a text, and what follows the last newline
CompleteLines(text) ==
    LET parts == SplitOnNewline(text) IN SubSeq(parts, 1, Len(parts) - 1)
TrailingPartial(text) ==
    LET parts == SplitOnNewline(text) IN parts[Len(parts)]

\* what a line is compared with: escape sequences, carriage returns, the
\* prompt prefix and surrounding white space removed
DetectionTarget(line) ==
    LET n == stripAnsi(RemoveCR(line))
    IN  Trim(IF StartsWith(n, PROMPT_PREFIX) THEN Slice(n, Len(PROMPT_PREFIX))
             ELSE n)

\* the status a line carries as a sentinel of this run, NaN if it carries none
LineStatus(line) ==
    IF StartsWith(DetectionTarget(line), exitMarker \o <<":">>)
    THEN ParseInt(Slice(DetectionTarget(line), Len(exitMarker) + 1))
    ELSE NaN

\* "<marker>:<digits>", the whole line
IsWellFormedSentinel(line) ==
    /\ StartsWith(line, exitMarker \o <<":">>)
    /\ Len(line) > Len(exitMarker) + 1
    /\ \A i \in (Len(exitMarker) + 2)..Len(line) : line[i] \in DigitChars

WellFormedStatus(line) == DecimalValue(Slice(line, Len(exitMarker) + 1))

LowercaseLetters ==
    {"a", "b", "c", "d", "e", "f", "g", "h", "i", "j", "k", "l", "m", "n",
     "o", "p", "q", "r", "s", "t", "u", "v", "w", "x", "y", "z"}

\* an ordinary output line: a non-empty word that is no shell boilerplate
IsOrdinaryLine(line) ==
    /\ line # <<>>
    /\ \A i \in 1..Len(line) : line[i] \in LowercaseLetters
    /\ line \notin BoilerplateLines

NoExitCodeWarning == "Command finished without reporting an exit code"

\* the close listener has run and no socket error came before it
ClosedCleanly == closeEvents = 1 /\ errorEvents = 0

----------------------------------------------------------------------------
(* C1 *)

\* C1: when the close listener runs and no exit code was captured, the
\* warning is emitted and (no socket error having settled the run before)
\* run() resolves with exactly 1; and run() resolves with 0 only if a line
\* carrying this run's marker with status 0 was flushed.
C1_FailSafeExitCode ==
    /\ (closeEvents = 1 /\ capturedExitCode = Undefined) =>
          /\ \E i \in 1..Len(warnings) : warnings[i] = NoExitCodeWarning
          /\ (errorEvents = 0 => outcome = Resolved(Num(1)))
    /\ (outcome = Resolved(Num(0))) =>
          \E i \in 1..Len(flushed) : LineStatus(flushed[i]) = Num(0)

\* a run that received output, but no sentinel, and was closed: result 1
C1_Witness ==
    /\ ClosedCleanly
    /\ flushed # <<>>
    /\ capturedExitCode = Undefined
    /\ outcome = Resolved(Num(1))
    /\ warnings = <<NoExitCodeWarning>>

----------------------------------------------------------------------------
(* C2 *)

\* C2: when the stdout text of a run that closed consists of ordinary lines
\* followed by the line "<marker>:n", run() resolves with n and exactly the
\* ordinary lines were written to standard output, in order.
C2_SentinelStatusReturned ==
    LET ls == CompleteLines(received)
        k == Len(ls)
    IN  ( /\ ClosedCleanly
          /\ TrailingPartial(received) = <<>>
          /\ k >= 1
          /\ IsWellFormedSentinel(ls[k])
          /\ \A i \in 1..(k - 1) : IsOrdinaryLine(ls[i]) )
        => /\ outcome = Resolved(Num(WellFormedStatus(ls[k])))
           /\ out = [i \in 1..(k - 1) |-> ls[i] \o NL]

\* "hi", then "<marker>:137", cut into frames inside a line, then close
C2_Witness ==
    /\ ClosedCleanly
    /\ carried
    /\ received = hi \o NL \o exitMarker \o <<":", "1", "3", "7">> \o NL
    /\ outcome = Resolved(Num(137))
    /\ out = <<hi \o NL>>

----------------------------------------------------------------------------
(* C3 *)

\* C3: a step that flushes no line of the form "<marker>:<digits>" leaves the
\* captured exit code as it was.
C3_MalformedSentinelIgnored ==
    [][ (\A i \in (Len(flushed) + 1)..Len(flushed') :
            ~IsWellFormedSentinel(DetectionTarget(flushed'[i])))
        => capturedExitCode' = capturedExitCode ]_vars

----------------------------------------------------------------------------
(* C4 *)

\* C4: with an empty or white-space-only command, run() is rejected and no
\* create-terminal request is issued, no socket is constructed and no frame
\* is sent.
C4_BlankCommandNoNetwork ==
    (Trim(command) = <<>>) =>
        /\ httpRequests = 0
        /\ sockets = 0
        /\ readyState = "NONE"
        /\ sent = <<>>
        /\ pc \in {"start", "done"}
        /\ (pc = "done" => outcome = Rejected("Cannot run an empty command"))

\* a white-space-only command, after run() has been called
C4_Witness ==
    /\ command = <<" ", "\t">>
    /\ pc = "done"
    /\ outcome = Rejected("Cannot run an empty command")

----------------------------------------------------------------------------
(* C5 *)

\* C5: a socket exists only after the create-terminal request returned a
\* success status (and so a terminal name); when that request failed, run()
\* is rejected and no socket was constructed, opened or written to.
C5_SocketOnlyAfterTerminalCreated ==
    /\ (sockets > 0 \/ readyState # "NONE") => terminalName # Undefined
    /\ (outcome = Rejected("Failed to create remote terminal")) =>
          /\ sockets = 0
          /\ readyState = "NONE"
          /\ ~opened
          /\ sent = <<>>
          /\ pc = "done"

\* the create-terminal request came back with a non-success status
C5_Witness ==
    /\ httpRequests = 1
    /\ outcome = Rejected("Failed to create remote terminal")
    /\ sockets = 0

----------------------------------------------------------------------------
(* C6 *)

\* C6: a frame is sent only after the open event has fired and while the
\* message, close and error listeners are registered; when the socket errors
\* before opening, nothing is sent and run() is rejected.
C6_NoFrameBeforeOpen ==
    /\ [](sent # <<>> => opened)
    /\ [][sent' # sent =>
            (opened /\ {"message", "close", "error"} \subseteq listeners)]_vars
    /\ []((errorEvents > 0 /\ ~opened) =>
            (sent = <<>> /\ outcome = Rejected("socket error")))

\* the payload has been sent on an open socket
C6_Witness ==
    /\ opened
    /\ Len(sent) = 1
    /\ pc = "streaming"

----------------------------------------------------------------------------
(* C7 *)

EmptyStream ==
    [buffer |-> <<>>, captured |-> Undefined, out |-> <<>>, flushed |-> <<>>]

\* the stream state after the whole text arrived as one stdout frame
OneFrame(text) == StdoutCase(EmptyStream, text, exitMarker, verbose)

\* C7: however the stdout text was cut into frames, the lines handed to
\* flushLine (and the partial line left in the buffer, flushed at close) are
\* those of the same text arriving as a single frame.
C7_ChunkingInvariance ==
    (exitMarker # <<>>) =>
        IF closeEvents = 0
        THEN /\ flushed = OneFrame(received).flushed
             /\ stdoutBuffer = OneFrame(received).buffer
        ELSE /\ flushed =
                  CloseFlush(OneFrame(received), exitMarker, verbose).flushed
             /\ stdoutBuffer = <<>>

\* a text cut inside a line, ending in a partial line that close flushed
C7_Witness ==
    /\ carried
    /\ closeEvents = 1
    /\ TrailingPartial(received) # <<>>
    /\ Len(flushed) >= 2

----------------------------------------------------------------------------
(* C8 *)

\* C8: after close the buffer is empty and the lines flushed are the
\* newline-terminated lines of the text followed, once, by its unterminated
\* tail if there is one; a tail "<marker>:n" makes run() resolve with n.
C8_TrailingLineFlushedAtClose ==
    (closeEvents = 1) =>
        LET tail == TrailingPartial(received)
        IN  /\ stdoutBuffer = <<>>
            /\ flushed = CompleteLines(received)
                           \o (IF tail # <<>> THEN <<tail>> ELSE <<>>)
            /\ (errorEvents = 0 /\ IsWellFormedSentinel(tail)) =>
                  outcome = Resolved(Num(WellFormedStatus(tail)))

\* the text ended in "<marker>:7" with no newline, then close
C8_Witness ==
    /\ ClosedCleanly
    /\ TrailingPartial(received) = exitMarker \o <<":", "7">>
    /\ stdoutBuffer = <<>>
    /\ outcome = Resolved(Num(7))

----------------------------------------------------------------------------
(* C9 *)

\* C9: handling a disconnect frame changes neither the result of run() nor
\* the line buffer nor the captured exit code; and run() is resolved with an
\* exit code only by a step in which the close listener runs.
C9_OnlyCloseResolves ==
    /\ [][(\E d \in DisconnectFrames : OnMessage(d)) =>
            UNCHANGED <<outcome, stdoutBuffer, capturedExitCode, pc,
                        readyState, closeEvents>>]_vars
    /\ [][(outcome = Pending /\ outcome'[1] = "resolved") =>
            (closeEvents' = closeEvents + 1 /\ readyState' = "CLOSED")]_vars

\* a disconnect frame was handled (and logged) and run() is still pending
C9_Witness ==
    /\ \E i \in 1..Len(logs) : logs[i] = "Remote runtime disconnected."
    /\ stdoutBuffer # <<>>
    /\ outcome = Pending
    /\ readyState = "OPEN"

----------------------------------------------------------------------------
(* C10 *)

----------------------------------------------------------------------------
(* C11 *)

\* the stdout text received so far was processed as if nothing else arrived
ProcessedNormally ==
    IF closeEvents = 0
    THEN /\ flushed = OneFrame(received).flushed
         /\ out = OneFrame(received).out
         /\ stdoutBuffer = OneFrame(received).buffer
    ELSE /\ flushed =
              CloseFlush(OneFrame(received), exitMarker, verbose).flushed
         /\ out = CloseFlush(OneFrame(received), exitMarker, verbose).out

\* C11: handling a frame with an unknown tag (stdin and set_size included)
\* neither settles run() nor closes anything, and leaves the line buffer, the
\* captured exit code and the output as they were; the stdout text is
\* processed as if the frame had not arrived.
C11_UnknownTagIgnored ==
    /\ [][(\E d \in UnknownFrames : OnMessage(d)) =>
            UNCHANGED <<stdoutBuffer, capturedExitCode, out, err, warnings,
                        logs, flushed, outcome, pc, readyState, listeners,
                        closeEvents>>]_vars
    /\ []((exitMarker # <<>> /\ others \cap {"stdin", "set_size", "ping"} # {})
            => ProcessedNormally)

\* a set_size frame arrived; the run then went on to the sentinel and closed
C11_Witness ==
    /\ others = {"set_size"}
    /\ ClosedCleanly
    /\ received = hi \o NL \o exitMarker \o <<":", "0">> \o NL
    /\ out = <<hi \o NL>>
    /\ outcome = Resolved(Num(0))

----------------------------------------------------------------------------
(* C12 *)

\* C12: handling a message that does not parse writes the warning "Failed to
\* parse terminal frame" and nothing else: run() is not settled, the line
\* buffer, the captured exit code and the output stay as they were, and the
\* stdout text is processed as if the message had not arrived.
C12_MalformedFrameSkipped ==
    /\ [][OnMessage(Garbage) =>
            /\ warnings' = Append(warnings, "Failed to parse terminal frame")
            /\ UNCHANGED <<stdoutBuffer, capturedExitCode, out, err, flushed,
                           outcome, pc, readyState, listeners,
                           closeEvents>>]_vars
    /\ []((exitMarker # <<>> /\ "garbage" \in others)
            => ProcessedNormally)

\* a message that does not parse arrived; the run then went on to the
\* sentinel "<marker>:137" and closed
C12_Witness ==
    /\ others = {"garbage"}
    /\ warnings = <<"Failed to parse terminal frame">>
    /\ ClosedCleanly
    /\ out = <<hi \o NL>>
    /\ outcome = Resolved(Num(137))

----------------------------------------------------------------------------
(* C13 *)

\* C13: handling a stderr frame writes its text to standard error as it is,
\* in that same step, and leaves the stdout line buffer, the captured exit
\* code, standard output and the result of run() as they were.
C13_StderrRaw ==
    [][\A d \in StderrFrames :
          OnMessage(d) =>
            /\ err' = Append(err, d[3])
            /\ UNCHANGED <<stdoutBuffer, capturedExitCode, out, flushed,
                           warnings, outcome>>]_vars

\* a stderr frame with a prompt, an escape sequence and "exit" arrived between
\* the two stdout frames of the line "hi"
C13_Witness ==
    /\ errMidLine
    /\ err = <<PROMPT_PREFIX
                 \o <<ESC, "[", "0", "m", "e", "x", "i", "t", "\r", "\n", "x">>>>
    /\ received = hi \o NL
    /\ out = <<hi \o NL>>
    /\ capturedExitCode = Undefined

----------------------------------------------------------------------------
(* C14 *)

\* the lines of the payload other than the user's command
PlumbingLines ==
    LET ls == SplitOnNewline(Payload(command, exitMarker))
    IN  { ls[i] : i \in 1..Len(ls) } \ { command, <<>> }

IsBoilerplate(line) ==
    DetectionTarget(line) \in
        PlumbingLines \cup { <<"e", "x", "i", "t">>,
                             <<"l", "o", "g", "o", "u", "t">> }

\* C14: in non-verbose mode no completed line that is the echo of a plumbing
\* line of the payload, or a bare exit / logout, is written to standard
\* output; in verbose mode every such line is written.
C14_BoilerplateSuppressed ==
    (exitMarker # <<>>) =>
        \A i \in 1..Len(flushed) :
            IsBoilerplate(flushed[i]) =>
                IF verbose
                THEN \E j \in 1..Len(out) : out[j] = flushed[i] \o NL
                ELSE \A j \in 1..Len(out) :
                        ~IsBoilerplate(SubSeq(out[j], 1, Len(out[j]) - 1))

----------------------------------------------------------------------------
(* C15 *)

\* s contains m
Contains(s, m) ==
    \E i \in 1..(Len(s) - Len(m) + 1) : SubSeq(s, i, i + Len(m) - 1) = m

\* no escape character and no carriage return in s
IsPlain(s) == \A i \in 1..Len(s) : s[i] \notin { ESC, "\r" }

----------------------------------------------------------------------------
(* C16 *)

StatusVariable ==
    <<"_", "_", "C", "O", "L", "A", "B", "_", "C", "L", "I", "_",
      "S", "T", "A", "T", "U", "S">>

\* the steps of a wrapped payload, in order
StepsInOrder(text) ==
    LET ls == SplitOnNewline(text)
    IN  /\ Len(ls) = 8
        /\ ls[1] = <<"s", "t", "t", "y", " ", "-", "e", "c", "h", "o">>
        /\ ls[2] = <<"P", "S", "1", "=">>
        /\ ls[3] = command
        /\ ls[4] = StatusVariable \o <<"=", "$", "?">>
        /\ ls[5] = <<"s", "t", "t", "y", " ", "e", "c", "h", "o">>
        /\ ls[6] = <<"p", "r", "i", "n", "t", "f", " ", "'">> \o exitMarker
                      \o <<":", "%", "s", "\\", "n", "'", " ", "\"", "$">>
                      \o StatusVariable \o <<"\"">>
        /\ ls[7] = <<"e", "x", "i", "t">>
        /\ ls[8] = <<>>

\* C16: a run sends at most one frame, and exactly one once it streams; the
\* frame is a stdin frame whose text is, line by line: stty -echo, PS1=, the
\* user's command, the capture of $? right after the command, stty echo, the
\* printf of "<marker>:<status>", exit.
C16_OneWrappedStdinFrame ==
    /\ Len(sent) <= 1
    /\ pc = "streaming" => Len(sent) = 1
    /\ \A i \in 1..Len(sent) :
          /\ sent[i][2] = "stdin"
          /\ StepsInOrder(sent[i][3])
          /\ sent[i][3] # command

\* the command "ls" was wrapped with the marker of uuid "b2" and sent, and
\* the run ended
C16_Witness ==
    /\ Len(sent) = 1
    /\ SplitOnNewline(sent[1][3])[3] = <<"l", "s">>
    /\ exitMarker = EXIT_SENTINEL_PREFIX \o <<"b", "2">>
    /\ closeEvents = 1

----------------------------------------------------------------------------
(* C17 *)

\* run() has resolved with an integer
ResolvedWithInteger ==
    /\ outcome[1] = "resolved"
    /\ outcome[2][1] = "number"
    /\ outcome[2][2] \in Int

\* C17: once the payload is sent on the open socket, with the close event
\* coming, run() is eventually settled, and if no socket error came before
\* the close it is resolved with an integer, whatever frames arrived.
C17_CloseResolvesWithInteger ==
    (pc = "streaming") ~>
        (outcome # Pending /\ (errorEvents = 0 => ResolvedWithInteger))

\* a message that does not parse, an unfinished line and no sentinel: close
\* resolved run() with 1
C17_Witness ==
    /\ ClosedCleanly
    /\ "garbage" \in others
    /\ received = <<"h", "i", "\n", "h", "o">>
    /\ capturedExitCode = Undefined
    /\ outcome = Resolved(Num(1))

----------------------------------------------------------------------------
(* C18 *)

\* C18: a run issues at most one create-terminal request, constructs at most
\* one socket and sends at most one frame, none of them after run() has
\* settled; and once a socket error event has fired, before or after open,
\* run() is rejected with that error and stays rejected.
C18_ErrorsSurfacedNotRetried ==
    /\ [](httpRequests <= 1 /\ sockets <= 1 /\ Len(sent) <= 1)
    /\ [][outcome # Pending => UNCHANGED <<httpRequests, sockets, sent>>]_vars
    /\ [](errorEvents > 0 => outcome = Rejected("socket error"))

\* the socket erred while streaming and then closed: run() stays rejected
C18_Witness ==
    /\ opened
    /\ errorEvents = 1
    /\ closeEvents = 1
    /\ httpRequests = 1 /\ sockets = 1 /\ Len(sent) = 1
    /\ outcome = Rejected("socket error")

----------------------------------------------------------------------------
(* C19 *)

\* the command's action threw before a token was obtained, before a runtime
\* was assigned, or because run() was rejected
AuthFailed == cli = "exited" /\ accessToken = Undefined
AssignFailed == cli = "exited" /\ accessToken # Undefined /\ runtime = Undefined
RunFailed == cli # "run" /\ outcome[1] = "rejected"

\* C19: in the run command, once the await of run() has returned exit code n,
\* process.exitCode is n and process.exit was not called; when obtaining the
\* token, assigning the runtime or run() failed, process.exit(1) was called.
C19_ExitStatusReported ==
    (cliCommand = "run") =>
        /\ (cli # "run" /\ outcome[1] = "resolved") =>
              /\ cli = "returned"
              /\ processExitCode = outcome[2]
              /\ exitStatus = Undefined
        /\ (AuthFailed \/ AssignFailed \/ RunFailed) =>
              /\ cli = "exited"
              /\ exitStatus = Num(1)
        /\ cli = "returned" => outcome[1] = "resolved"

\* the remote command ended with status 137 and the CLI stored it
C19_Witness ==
    /\ cliCommand = "run"
    /\ cli = "returned"
    /\ outcome = Resolved(Num(137))
    /\ processExitCode = Num(137)

----------------------------------------------------------------------------
(* C20 *)

\* C20: a runtime is assigned only with a token in hand; a runner or a
\* terminal session exists, a create-terminal request is issued and a socket
\* is constructed only with a runtime in hand; when the assignment failed
\* there is no runner, no terminal session, no request and no socket.
C20_TokenRuntimeChannelOrder ==
    /\ runtime # Undefined => accessToken # Undefined
    /\ (runners > 0 \/ terminalSessions > 0) => runtime # Undefined
    /\ (httpRequests > 0 \/ sockets > 0 \/ pc # "start") =>
          (runners > 0 /\ runtime # Undefined)
    /\ cli \in {"run", "start"} => runners + terminalSessions = 1
    /\ AssignFailed =>
          /\ runners = 0 /\ terminalSessions = 0
          /\ httpRequests = 0 /\ sockets = 0 /\ sent = <<>>

\* connect: the token was obtained, assignRuntime threw, the process exited
C20_Witness ==
    /\ cliCommand = "connect"
    /\ AssignFailed
    /\ exitStatus = Num(1)
    /\ terminalSessions = 0

----------------------------------------------------------------------------
(* C21 *)

\* C21: after a user interrupt during a run the close listener has run: the
\* buffered partial line was flushed and, with no exit code captured, the
\* warning was written and run() resolved with 1.
C21_CancellationTakesClosePath ==
    (exitStatus = Signal("SIGINT")) =>
        /\ closeEvents = 1
        /\ stdoutBuffer = <<>>
        /\ capturedExitCode = Undefined =>
              /\ \E i \in 1..Len(warnings) : warnings[i] = NoExitCodeWarning
              /\ outcome = Resolved(Num(1))

----------------------------------------------------------------------------
(* C22 *)

\* the line begins with "<marker>:" once cleaned and trimmed
IsSentinelLine(line) == StartsWith(DetectionTarget(line), exitMarker \o <<":">>)

\* the line is neither a sentinel line nor, in non-verbose mode, suppressed
IsForwarded(line) ==
    /\ ~IsSentinelLine(line)
    /\ verbose \/ ~shouldSuppressLine(DetectionTarget(line), exitMarker)

\* what is written for a line: the line itself in verbose mode, the line
\* without escape sequences, carriage returns and prompt prefix otherwise
WrittenFor(line) ==
    LET n == stripAnsi(RemoveCR(line))
    IN  (IF verbose THEN line
         ELSE IF StartsWith(n, PROMPT_PREFIX) THEN Slice(n, Len(PROMPT_PREFIX))
         ELSE n) \o NL

\* C22: standard output holds, in the order of completion and once each, one
\* write for every flushed line (blank lines included) that is neither a
\* sentinel line nor, in non-verbose mode, suppressed boilerplate.
C22_EveryLineWrittenOnceInOrder ==
    (exitMarker # <<>>) =>
        LET kept == SelectSeq(flushed, IsForwarded)
        IN  out = [i \in 1..Len(kept) |-> WrittenFor(kept[i])]

----------------------------------------------------------------------------
(* C23 *)

\* C23: no write to standard output is a line that begins with "<marker>:"
\* once cleaned and trimmed, and a step that flushes only such lines writes
\* nothing, in verbose and in non-verbose mode and whatever follows the colon.
C23_SentinelNeverWritten ==
    /\ [](\A j \in 1..Len(out) :
            ~IsSentinelLine(SubSeq(out[j], 1, Len(out[j]) - 1)))
    /\ [][(\A i \in (Len(flushed) + 1)..Len(flushed') :
              IsSentinelLine(flushed'[i]))
          => out' = out]_vars

\* verbose: "<marker>:3", "<marker>:x" and "<marker>:2" were flushed and
\* nothing was written
C23_Witness ==
    /\ verbose
    /\ flushed = << exitMarker \o <<":", "3">>, exitMarker \o <<":", "x">>,
                    exitMarker \o <<":", "2">> >>
    /\ out = <<>>
    /\ closeEvents = 1

----------------------------------------------------------------------------
(* C24 *)

\* the flushed lines that are "<marker>:<digits>" once cleaned and trimmed
WellFormedSentinels ==
    SelectSeq(flushed, LAMBDA l : IsWellFormedSentinel(DetectionTarget(l)))

\* C24: a captured exit code is never unset; once one is captured, a step
\* that flushes no line of the form "<marker>:<digits>" leaves it as it is;
\* and a run that closed after several such lines resolves with the status of
\* the last of them.
C24_CapturedCodeMonotoneLastWins ==
    /\ [][capturedExitCode # Undefined => capturedExitCode' # Undefined]_vars
    /\ [][(/\ capturedExitCode # Undefined
           /\ \A i \in (Len(flushed) + 1)..Len(flushed') :
                 ~IsWellFormedSentinel(DetectionTarget(flushed'[i])))
          => capturedExitCode' = capturedExitCode]_vars
    /\ []((ClosedCleanly /\ WellFormedSentinels # <<>>) =>
            outcome = Resolved(Num(WellFormedStatus(DetectionTarget(
                          WellFormedSentinels[Len(WellFormedSentinels)])))))

----------------------------------------------------------------------------
(* C25 *)

\* C25: the result of run() never changes once settled; the close listener
\* running after an error leaves the rejection in place while it flushes the
\* buffer and, with no exit code captured, writes the warning; an error event
\* after the close listener ran leaves the exit code run() resolved with.
C25_SettledOnceByFirstEvent ==
    /\ [][outcome # Pending => outcome' = outcome]_vars
    /\ [][(closeEvents' = closeEvents + 1 /\ errorEvents > 0) =>
            /\ outcome' = Rejected("socket error")
            /\ stdoutBuffer' = <<>>
            /\ flushed' = CloseFlush(StreamState, exitMarker, verbose).flushed
            /\ capturedExitCode' = Undefined =>
                  warnings' = Append(warnings, NoExitCodeWarning)]_vars
    /\ [][(errorEvents' = errorEvents + 1 /\ closeEvents > 0) =>
            /\ outcome[1] = "resolved"
            /\ outcome' = outcome
            /\ UNCHANGED <<processExitCode, capturedExitCode, out, warnings>>]_vars

\* the close listener resolved run() with 137, then the socket emitted error
C25_Witness ==
    /\ closeEvents = 1
    /\ errorEvents = 1
    /\ outcome = Resolved(Num(137))

----------------------------------------------------------------------------
(* C26 *)

\* C26: the marker of a run is made during that run from a new random uuid,
\* so it is none of the markers of earlier runs; and a step that flushes no
\* line beginning with this run's "<marker>:" (lines "<otherMarker>:<digits>"
\* included) leaves the captured exit code as it was.
C26_OnlyOwnMarkerSetsCode ==
    /\ [](exitMarker # <<>> =>
            /\ exitMarker \in { EXIT_SENTINEL_PREFIX \o u : u \in UUIDs }
            /\ exitMarker \notin
                  { EXIT_SENTINEL_PREFIX \o u : u \in EarlierUUIDs })
    /\ [][(\A i \in (Len(flushed) + 1)..Len(flushed') :
              ~IsSentinelLine(flushed'[i]))
          => capturedExitCode' = capturedExitCode]_vars

\* the line "<otherMarker>:0" was flushed and the run closed: no exit code
\* was captured and run() resolved with the fallback 1
C26_Witness ==
    /\ ClosedCleanly
    /\ flushed = << OtherMarker(exitMarker) \o <<":", "0">> >>
    /\ capturedExitCode = Undefined
    /\ outcome = Resolved(Num(1))

----------------------------------------------------------------------------
(* C27 *)

\* the candidates that exist, in search order
ExistingCandidates ==
    SelectSeq(searchOrder(config.customGiven),
              LAMBDA f : config.files[f] # "missing")

\* C27: loadConfig reads the candidates in the fixed order and every one it
\* read before the last was missing; the first candidate that exists decides:
\* the result is that file if it is valid and a failure otherwise, no later
\* candidate is read and the environment is not consulted; the environment
\* is consulted only when every candidate is missing.
C27_FirstExistingFileDecides ==
    (config.stage # "idle") =>
        LET order == searchOrder(config.customGiven)
        IN  /\ order = IF config.customGiven THEN CandidateFiles
                       ELSE Tail(CandidateFiles)
            /\ Len(config.reads) <= Len(order)
            /\ config.reads = SubSeq(order, 1, Len(config.reads))
            /\ \A i \in 1..(Len(config.reads) - 1) :
                  config.files[config.reads[i]] = "missing"
            /\ config.envRead => ExistingCandidates = <<>>
            /\ (config.stage = "done" /\ ExistingCandidates # <<>>) =>
                  /\ config.reads[Len(config.reads)] = ExistingCandidates[1]
                  /\ ~config.envRead
                  /\ IF config.files[ExistingCandidates[1]] = "valid"
                     THEN /\ config.parsed = FromFile(ExistingCandidates[1])
                          /\ config.result \in { Resolved(config.parsed),
                                                 Rejected("mkdir") }
                     ELSE /\ config.parsed = Undefined
                          /\ config.result[1] = "rejected"
                          /\ config.result # Rejected("mkdir")
            /\ (config.stage = "done" /\ ExistingCandidates = <<>>) =>
                  /\ config.reads = order
                  /\ config.envRead
                  /\ IF config.env = "valid"
                     THEN /\ config.parsed = FromEnv
                          /\ config.result \in { Resolved(config.parsed),
                                                 Rejected("mkdir") }
                     ELSE /\ config.parsed = Undefined
                          /\ config.result[1] = "rejected"

\* no custom path, the two files of the working directory are missing, the
\* home cgpu file does not validate, the home colab-cli file is valid and so
\* is the environment: loadConfig failed after three reads
C27_Witness ==
    /\ config.stage = "done"
    /\ ~config.customGiven
    /\ Len(config.reads) = 3
    /\ config.files["home/.config/cgpu/config.json"] = "invalid"
    /\ config.files["home/.config/colab-cli/config.json"] = "valid"
    /\ config.env = "valid"
    /\ config.result[1] = "rejected"
    /\ ~config.envRead

====
